---------------------------- MODULE Spec2Model ----------------------------
(***************************************************************************)
(* LLM provider abstraction layer of nl-query (llm_provider.py) and its    *)
(* consumers (sql_generator.py, description_generator.py).                 *)
(*                                                                         *)
(* Text is modelled as a sequence of one-character strings, so that        *)
(* str.lower(), str.strip(), str.rstrip("/") and f-string interpolation    *)
(* are computed character by character.                                    *)
(***************************************************************************)
EXTENDS Integers, Sequences, FiniteSets, TLC

VARIABLES
    env,            \* os.environ: a function from the variables that are set to their text
    _provider,      \* llm_provider._provider, the module-level cache
    heap,           \* number of provider objects constructed so far (object identity)
    factoryCalls,   \* number of invocations of get_llm_provider() so far
    last,           \* the last top-level call: its arguments, what it did, its outcome
    pc,             \* per thread: position inside get_provider()
    built,          \* per thread: the object its factory call returned
    returned        \* per thread: what get_provider() returned or raised

vars == <<env, _provider, heap, factoryCalls, last, pc, built, returned>>

---------------------------------------------------------------------------
(* Python values *)

\* None, as a value comparable with text
PyNone == <<"None">>

\* str.isspace() on the characters the model uses
IsSpace(c) == c \in {" ", "\n", "\t"}

RECURSIVE LStrip(_)
LStrip(s) ==
    IF s # <<>> /\ IsSpace(Head(s)) THEN LStrip(Tail(s)) ELSE s

RECURSIVE RStrip(_)
RStrip(s) ==
    IF s # <<>> /\ IsSpace(s[Len(s)]) THEN RStrip(SubSeq(s, 1, Len(s) - 1)) ELSE s

\* str.strip()
Strip(s) == RStrip(LStrip(s))

\* str.rstrip("/")
RECURSIVE RStripSlash(_)
RStripSlash(s) ==
    IF s # <<>> /\ s[Len(s)] = "/" THEN RStripSlash(SubSeq(s, 1, Len(s) - 1)) ELSE s

UpperLetters ==
    <<"A","B","C","D","E","F","G","H","I","J","K","L","M",
      "N","O","P","Q","R","S","T","U","V","W","X","Y","Z">>

LowerLetters ==
    <<"a","b","c","d","e","f","g","h","i","j","k","l","m",
      "n","o","p","q","r","s","t","u","v","w","x","y","z">>

LowerChar(c) ==
    IF \E i \in 1..26 : UpperLetters[i] = c
    THEN LowerLetters[CHOOSE i \in 1..26 : UpperLetters[i] = c]
    ELSE c

\* Mutation of Lower: the kind compared as typed, without case folding
Lower_AsTyped(s) == s

\* str.lower()
Lower(s) == [i \in 1..Len(s) |-> LowerChar(s[i])]

\* sub in s
Contains(s, sub) ==
    \E i \in 0..(Len(s) - Len(sub)) : SubSeq(s, i + 1, i + Len(sub)) = sub

\* bool(x) for x a text or None
Truthy(x) == x # PyNone /\ x # <<>>

\* x or d
Or(x, d) == IF Truthy(x) THEN x ELSE d

\* os.getenv(key, default)
getenv(e, key, default) == IF key \in DOMAIN e THEN e[key] ELSE default

---------------------------------------------------------------------------
(* Literals of llm_provider.py *)

S_openai == <<"o","p","e","n","a","i">>
S_anthropic == <<"a","n","t","h","r","o","p","i","c">>
S_claude == <<"c","l","a","u","d","e">>
S_ollama == <<"o","l","l","a","m","a">>
S_vllm == <<"v","l","l","m">>
S_openai_compatible ==
    <<"o","p","e","n","a","i","-","c","o","m","p","a","t","i","b","l","e">>

S_gpt_4o == <<"g","p","t","-","4","o">>
S_claude_sonnet ==
    <<"c","l","a","u","d","e","-","s","o","n","n","e","t","-","4","-",
      "2","0","2","5","0","5","1","4">>
S_llama31 == <<"l","l","a","m","a","3",".","1">>
S_ollama_url ==
    <<"h","t","t","p",":","/","/","l","o","c","a","l","h","o","s","t",":",
      "1","1","4","3","4">>
S_vllm_url ==
    <<"h","t","t","p",":","/","/","l","o","c","a","l","h","o","s","t",":",
      "8","0","0","0","/","v","1">>
S_EMPTY == <<"E","M","P","T","Y">>
S_api_chat == <<"/","a","p","i","/","c","h","a","t">>
S_please_respond ==
    <<"P","l","e","a","s","e"," ","r","e","s","p","o","n","d",".">>

---------------------------------------------------------------------------
(* Provider classes *)

\* OpenAIProvider.__init__
OpenAIProvider(api_key, model, base_url) ==
    [class |-> "OpenAIProvider", model |-> model,
     client |-> IF Truthy(base_url)
                THEN [api_key |-> api_key, base_url |-> base_url]
                ELSE [api_key |-> api_key, base_url |-> PyNone]]

\* AnthropicProvider.__init__
AnthropicProvider(api_key, model) ==
    [class |-> "AnthropicProvider", model |-> model,
     client |-> [api_key |-> api_key, base_url |-> PyNone]]

\* OllamaProvider.__init__
OllamaProvider(model, base_url) ==
    [class |-> "OllamaProvider", model |-> model,
     client |-> [api_key |-> PyNone, base_url |-> RStripSlash(base_url)]]

\* VLLMProvider.__init__
VLLMProvider(model, base_url, api_key) ==
    [class |-> "VLLMProvider", model |-> model,
     client |-> [api_key |-> api_key, base_url |-> base_url]]

\* OpenAICompatibleProvider.__init__
OpenAICompatibleProvider(model, base_url, api_key) ==
    [class |-> "OpenAICompatibleProvider", model |-> model,
     client |-> [api_key |-> api_key, base_url |-> base_url]]

\* The text before the model in each class's name property
NamePrefix(class) ==
    CASE class = "OpenAIProvider" -> <<"O","p","e","n","A","I"," ","(">>
      [] class = "AnthropicProvider" ->
            <<"A","n","t","h","r","o","p","i","c"," ","(">>
      [] class = "OllamaProvider" -> <<"O","l","l","a","m","a"," ","(">>
      [] class = "VLLMProvider" -> <<"v","L","L","M"," ","(">>
      [] class = "OpenAICompatibleProvider" ->
            <<"O","p","e","n","A","I","-","C","o","m","p","a","t","i","b","l","e",
              " ","(">>

\* LLMProvider.name of each class: f"<Class> ({self.model})"
name(p) == NamePrefix(p.class) \o p.model \o <<")">>

---------------------------------------------------------------------------
(* Factory *)

Returned(v) == [status |-> "return", value |-> v]

\* Mutation of RaiseRequired: the message copied from the LLM_MODEL check
\* without changing the variable it names
RaiseRequired_CopiedMessage(variable, who) ==
    [status |-> "raise",
     error |-> [exc |-> "ValueError", kind |-> "required",
                variable |-> "LLM_MODEL", who |-> who]]

\* raise ValueError("<variable> environment variable is required for <who> provider")
RaiseRequired(variable, who) ==
    [status |-> "raise",
     error |-> [exc |-> "ValueError", kind |-> "required",
                variable |-> variable, who |-> who]]

\* raise ValueError(f"Unknown LLM provider: {provider_type}. Supported: ...")
RaiseUnknown(provider_type) ==
    [status |-> "raise",
     error |-> [exc |-> "ValueError", kind |-> "unknown",
                value |-> provider_type,
                supported |-> <<S_openai, S_anthropic, S_ollama, S_vllm,
                                S_openai_compatible>>]]

\* get_llm_provider(), as a function of the environment it reads
get_llm_provider(e) ==
    LET provider_type == Lower(getenv(e, "LLM_PROVIDER", S_openai))
        model == getenv(e, "LLM_MODEL", PyNone)
        base_url == getenv(e, "LLM_BASE_URL", PyNone)
    IN  IF provider_type = S_openai THEN
            LET api_key == getenv(e, "OPENAI_API_KEY", PyNone)
            IN  IF ~Truthy(api_key)
                THEN RaiseRequired("OPENAI_API_KEY", "OpenAI")
                ELSE Returned(OpenAIProvider(api_key, Or(model, S_gpt_4o), base_url))
        ELSE IF provider_type = S_anthropic \/ provider_type = S_claude THEN
            LET api_key == getenv(e, "ANTHROPIC_API_KEY", PyNone)
            IN  IF ~Truthy(api_key)
                THEN RaiseRequired("ANTHROPIC_API_KEY", "Anthropic")
                ELSE Returned(AnthropicProvider(api_key, Or(model, S_claude_sonnet)))
        ELSE IF provider_type = S_ollama THEN
            Returned(OllamaProvider(Or(model, S_llama31), Or(base_url, S_ollama_url)))
        ELSE IF provider_type = S_vllm THEN
            IF ~Truthy(model)
            THEN RaiseRequired("LLM_MODEL", "vLLM")
            ELSE Returned(VLLMProvider(model, Or(base_url, S_vllm_url),
                                       getenv(e, "OPENAI_API_KEY", S_EMPTY)))
        ELSE IF provider_type = S_openai_compatible THEN
            IF ~Truthy(model)
            THEN RaiseRequired("LLM_MODEL", "OpenAI-compatible")
            ELSE IF ~Truthy(base_url)
            THEN RaiseRequired("LLM_BASE_URL", "OpenAI-compatible")
            ELSE Returned(OpenAICompatibleProvider(model, base_url,
                                       getenv(e, "OPENAI_API_KEY", S_EMPTY)))
        ELSE RaiseUnknown(provider_type)

\* The os.getenv() reads one get_llm_provider() call performs
FactoryEnvReads(e) ==
    LET provider_type == Lower(getenv(e, "LLM_PROVIDER", S_openai))
    IN  3 + (IF provider_type \in {S_openai, S_anthropic, S_claude} THEN 1
             ELSE IF provider_type = S_vllm
                     /\ Truthy(getenv(e, "LLM_MODEL", PyNone)) THEN 1
             ELSE IF provider_type = S_openai_compatible
                     /\ Truthy(getenv(e, "LLM_MODEL", PyNone))
                     /\ Truthy(getenv(e, "LLM_BASE_URL", PyNone)) THEN 1
             ELSE 0)

---------------------------------------------------------------------------
(* chat() of each provider class *)

\* for msg in messages: if msg["role"] == "system": system_content += msg["content"] + "\n"
RECURSIVE SystemContent(_)
SystemContent(messages) ==
    IF messages = <<>> THEN <<>>
    ELSE IF Head(messages).role = "system"
         THEN Head(messages).content \o <<"\n">> \o SystemContent(Tail(messages))
         ELSE SystemContent(Tail(messages))

\* for msg in messages: ... else: chat_messages.append(msg)
RECURSIVE NonSystem(_)
NonSystem(messages) ==
    IF messages = <<>> THEN <<>>
    ELSE IF Head(messages).role = "system"
         THEN NonSystem(Tail(messages))
         ELSE <<Head(messages)>> \o NonSystem(Tail(messages))

\* if not chat_messages: chat_messages = [{"role": "user", "content": "Please respond."}]
ChatMessages(messages) ==
    IF NonSystem(messages) = <<>>
    THEN <<[role |-> "user", content |-> S_please_respond]>>
    ELSE NonSystem(messages)

\* system=system_content.strip() if system_content else None
SystemField(messages) ==
    IF Truthy(SystemContent(messages)) THEN Strip(SystemContent(messages)) ELSE PyNone

\* The keyword arguments of self.client.messages.create(...)
AnthropicRequest(p, messages, max_tokens, temperature) ==
    [api |-> "messages.create", client |-> p.client,
     kwargs |-> [model |-> p.model, max_tokens |-> max_tokens,
                 system |-> SystemField(messages),
                 messages |-> ChatMessages(messages)]]

\* The keyword arguments of self.client.chat.completions.create(...)
\* (OpenAIProvider, VLLMProvider and OpenAICompatibleProvider)
CompletionsRequest(p, messages, max_tokens, temperature) ==
    [api |-> "chat.completions.create", client |-> p.client,
     kwargs |-> [model |-> p.model, messages |-> messages,
                 max_tokens |-> max_tokens, temperature |-> temperature]]

\* requests.post(f"{self.base_url}/api/chat", json={...}, timeout=120)
OllamaTimeout == 120

OllamaRequest(p, messages, max_tokens, temperature) ==
    [api |-> "requests.post", client |-> p.client,
     kwargs |-> [url |-> p.client.base_url \o S_api_chat,
                 json |-> [model |-> p.model, messages |-> messages,
                           stream |-> FALSE,
                           options |-> [num_predict |-> max_tokens,
                                        temperature |-> temperature]],
                 timeout |-> OllamaTimeout]]

\* The request p.chat(messages, max_tokens, temperature) sends
ChatRequest(p, messages, max_tokens, temperature) ==
    CASE p.class = "AnthropicProvider" ->
            AnthropicRequest(p, messages, max_tokens, temperature)
      [] p.class = "OllamaProvider" ->
            OllamaRequest(p, messages, max_tokens, temperature)
      [] p.class \in {"OpenAIProvider", "VLLMProvider", "OpenAICompatibleProvider"} ->
            CompletionsRequest(p, messages, max_tokens, temperature)

\* What the backend does with a request: it answers with a text, or the client
\* raises (transport failure, rejected request, non-2xx status).
BackendOutcomes ==
    {[ok |-> TRUE, text |-> <<" ", "r", "\n">>],
     [ok |-> TRUE, text |-> <<>>],
     [ok |-> FALSE, text |-> <<>>]}

\* return response...content.strip(), or the client's exception propagating
ChatResult(outcome) ==
    IF outcome.ok
    THEN [status |-> "return", text |-> Strip(outcome.text)]
    ELSE [status |-> "raise", text |-> <<>>]

---------------------------------------------------------------------------
(* Bounds and input sets *)

MaxCalls == 3       \* factory invocations per behaviour
MaxMsgs == 3        \* longest transcript handed to chat()
NumThreads == 2     \* threads racing on the first get_provider()

Keys == {"LLM_PROVIDER", "LLM_MODEL", "LLM_BASE_URL", "OPENAI_API_KEY",
         "ANTHROPIC_API_KEY"}

\* Marks a variable that is not set when an environment is built
Unset == <<"unset">>

MkEnv(p, m, u, o, a) ==
    LET c == [LLM_PROVIDER |-> p, LLM_MODEL |-> m, LLM_BASE_URL |-> u,
              OPENAI_API_KEY |-> o, ANTHROPIC_API_KEY |-> a]
    IN  [k \in {x \in Keys : c[x] # Unset} |-> c[k]]

\* LLM_PROVIDER values: every kind in lower and in mixed case, the empty text,
\* and texts that are no kind
ProviderTexts ==
    {<<>>,
     S_openai, <<"O","p","e","n","A","I">>,
     S_anthropic, <<"A","N","T","H","R","O","P","I","C">>,
     S_claude, <<"C","l","a","u","d","e">>,
     S_ollama, <<"O","L","L","A","M","A">>,
     S_vllm, <<"v","L","L","M">>,
     S_openai_compatible,
     <<"O","p","e","n","A","I","-","C","o","m","p","a","t","i","b","l","e">>,
     <<"g","p","t">>, <<" ","o","p","e","n","a","i">>, <<"G","e","m","i","n","i">>}

ModelTexts == {<<>>, <<"m">>, <<"M","x">>}
UrlTexts == {<<>>, <<"u">>, <<"u","/">>}
KeyTexts == {<<>>, <<"k">>}

\* Every environment the factory is examined on
FactoryEnvs ==
    {MkEnv(p, m, u, o, a) :
        p \in ProviderTexts \cup {Unset}, m \in ModelTexts \cup {Unset},
        u \in UrlTexts \cup {Unset}, o \in KeyTexts \cup {Unset},
        a \in KeyTexts \cup {Unset}}

\* The variables changed, and the values they are changed to, while the
\* singleton is in use (OPENAI_API_KEY stays unset: the default kind fails)
SingletonKeys == {"LLM_PROVIDER", "LLM_MODEL", "ANTHROPIC_API_KEY"}

SingletonTexts(k) ==
    CASE k = "LLM_PROVIDER" -> {S_ollama, <<"C","l","a","u","d","e">>, <<"g","p","t">>}
      [] k = "LLM_MODEL" -> {<<"m">>}
      [] k = "ANTHROPIC_API_KEY" -> {<<"k">>}

\* One complete configuration per kind the factory accepts
ChatEnvs ==
    {MkEnv(S_openai, Unset, Unset, <<"k">>, Unset),
     MkEnv(S_anthropic, <<"m">>, Unset, Unset, <<"k">>),
     MkEnv(S_claude, Unset, Unset, Unset, <<"k">>),
     MkEnv(S_ollama, Unset, <<"u","/">>, Unset, Unset),
     MkEnv(S_vllm, <<"m">>, Unset, Unset, Unset),
     MkEnv(S_openai_compatible, <<"m">>, <<"u">>, <<"k">>, Unset)}

\* Configurations the racing threads start from: complete ones and failing ones
ConcEnvs ==
    ChatEnvs \cup {MkEnv(Unset, Unset, Unset, Unset, Unset),
                   MkEnv(<<"g","p","t">>, Unset, Unset, Unset, Unset)}

Roles == {"system", "user", "assistant"}
Contents == {<<>>, <<"a">>, <<" ","b">>}
Message == [role : Roles, content : Contents]

\* All transcripts of at most n messages
Transcripts(n) == UNION {[1..k -> Message] : k \in 0..n}

\* Transcripts handed to llm_provider.chat() while the singleton is examined
SingletonTranscripts ==
    {<<>>, <<[role |-> "user", content |-> <<"a">>]>>}

\* max_tokens: the least value and the default
DefaultMaxTokens == 500
MaxTokensValues == {1, DefaultMaxTokens}

\* temperature in tenths: 0.0 and the default 0.7
DefaultTemperature == 7
TemperatureValues == {0, DefaultTemperature}

\* Texts the prompt templates of prompts.py expand to
SystemPromptText == <<"s">>
ContextText == <<"c", "\n">>

\* config.LLM_CONFIG, the generation parameters the consumers pass
LLM_CONFIG == [max_tokens |-> 1, temperature |-> 0]
PromptTexts == {<<"q">>, <<" ","s","\n">>}

---------------------------------------------------------------------------
(* Objects and call records *)

\* _provider = None
NoProvider == [class |-> "NoneType"]

\* The object a constructor call allocates: the id is its identity
New(v, id) == [id |-> id, class |-> v.class, model |-> v.model, client |-> v.client]

NoError == [exc |-> "none"]
NoArgs == [messages |-> <<>>, max_tokens |-> 0, temperature |-> 0]

\* A call record: what was called and with what, what the caller gets (an
\* object, a text or an error), and what the call did: how often it invoked
\* the factory, how many os.getenv() reads it made, the requests it sent
NoCall ==
    [op |-> "none", status |-> "none", obj |-> NoProvider, error |-> NoError,
     text |-> <<>>, args |-> NoArgs, argsAfter |-> NoArgs,
     factory |-> 0, reads |-> 0, requests |-> <<>>]

\* Mutation of get_provider: the cache is never consulted
get_provider_Rebuilds(p, e, h) ==
    LET r == get_llm_provider(e)
    IN  IF r.status = "return"
        THEN [cache |-> New(r.value, h + 1), status |-> "return",
              obj |-> New(r.value, h + 1), error |-> NoError,
              factory |-> 1, reads |-> FactoryEnvReads(e), allocated |-> 1]
        ELSE [cache |-> p, status |-> "raise",
              obj |-> NoProvider, error |-> r.error,
              factory |-> 1, reads |-> FactoryEnvReads(e), allocated |-> 0]

\* Mutation of get_provider: a failed construction is remembered, so the
\* factory is not asked again
get_provider_CachesFailure(p, e, h) ==
    IF p = NoProvider
    THEN LET r == get_llm_provider(e)
         IN  IF r.status = "return"
             THEN [cache |-> New(r.value, h + 1), status |-> "return",
                   obj |-> New(r.value, h + 1), error |-> NoError,
                   factory |-> 1, reads |-> FactoryEnvReads(e), allocated |-> 1]
             ELSE [cache |-> [class |-> "Failed", error |-> r.error],
                   status |-> "raise", obj |-> NoProvider, error |-> r.error,
                   factory |-> 1, reads |-> FactoryEnvReads(e), allocated |-> 0]
    ELSE IF p.class = "Failed"
    THEN [cache |-> p, status |-> "raise", obj |-> NoProvider, error |-> p.error,
          factory |-> 0, reads |-> 0, allocated |-> 0]
    ELSE [cache |-> p, status |-> "return", obj |-> p, error |-> NoError,
          factory |-> 0, reads |-> 0, allocated |-> 0]

\* get_provider() run to completion on cache p, environment e and h objects
\* allocated: the new cache, what the caller gets, and what the call did
get_provider(p, e, h) ==
    IF p = NoProvider
    THEN LET r == get_llm_provider(e)
         IN  IF r.status = "return"
             THEN [cache |-> New(r.value, h + 1), status |-> "return",
                   obj |-> New(r.value, h + 1), error |-> NoError,
                   factory |-> 1, reads |-> FactoryEnvReads(e), allocated |-> 1]
             ELSE [cache |-> p, status |-> "raise",
                   obj |-> NoProvider, error |-> r.error,
                   factory |-> 1, reads |-> FactoryEnvReads(e), allocated |-> 0]
    ELSE [cache |-> p, status |-> "return", obj |-> p, error |-> NoError,
          factory |-> 0, reads |-> 0, allocated |-> 0]

\* chat() never stores into the list or the messages it is given
ArgsAfterChat(args) == args

---------------------------------------------------------------------------
(* Actions *)

InitThreads ==
    /\ pc = [t \in 1..NumThreads |-> "idle"]
    /\ built = [t \in 1..NumThreads |-> NoProvider]
    /\ returned = [t \in 1..NumThreads |-> NoCall]

threadVars == <<pc, built, returned>>

\* os.environ[k] = v
SetEnv(k, v) ==
    /\ env' = [x \in DOMAIN env \cup {k} |-> IF x = k THEN v ELSE env[x]]
    /\ UNCHANGED <<_provider, heap, factoryCalls, last, threadVars>>

\* del os.environ[k]
DelEnv(k) ==
    /\ k \in DOMAIN env
    /\ env' = [x \in DOMAIN env \ {k} |-> env[x]]
    /\ UNCHANGED <<_provider, heap, factoryCalls, last, threadVars>>

\* A direct call of the factory get_llm_provider()
CallFactory ==
    /\ factoryCalls < MaxCalls
    /\ LET r == get_llm_provider(env)
       IN  /\ factoryCalls' = factoryCalls + 1
           /\ heap' = IF r.status = "return" THEN heap + 1 ELSE heap
           /\ last' = [NoCall EXCEPT
                         !.op = "get_llm_provider", !.status = r.status,
                         !.obj = IF r.status = "return"
                                 THEN New(r.value, heap + 1) ELSE NoProvider,
                         !.error = IF r.status = "raise" THEN r.error ELSE NoError,
                         !.factory = 1, !.reads = FactoryEnvReads(env)]
    /\ UNCHANGED <<env, _provider, threadVars>>

\* A call of get_provider() by the only thread
GetProvider ==
    LET g == get_provider(_provider, env, heap)
    IN  /\ factoryCalls + g.factory <= MaxCalls
        /\ _provider' = g.cache
        /\ heap' = heap + g.allocated
        /\ factoryCalls' = factoryCalls + g.factory
        /\ last' = [NoCall EXCEPT
                      !.op = "get_provider", !.status = g.status,
                      !.obj = g.obj, !.error = g.error,
                      !.factory = g.factory, !.reads = g.reads]
        /\ UNCHANGED <<env, threadVars>>

\* op(...) building `messages` and running
\* get_provider().chat(messages, max_tokens, temperature) against a backend
\* that answers with `outcome`
ThroughSingleton(op, messages, max_tokens, temperature, outcome) ==
    LET g == get_provider(_provider, env, heap)
        args == [messages |-> messages, max_tokens |-> max_tokens,
                 temperature |-> temperature]
        res == ChatResult(outcome)
        called == [NoCall EXCEPT !.op = op, !.args = args, !.argsAfter = args,
                                 !.factory = g.factory, !.reads = g.reads]
    IN  /\ factoryCalls + g.factory <= MaxCalls
        /\ _provider' = g.cache
        /\ heap' = heap + g.allocated
        /\ factoryCalls' = factoryCalls + g.factory
        /\ last' = IF g.status = "raise"
                   THEN [called EXCEPT !.status = "raise", !.error = g.error]
                   ELSE [called EXCEPT
                           !.status = res.status, !.obj = g.obj, !.text = res.text,
                           !.error = IF res.status = "raise"
                                     THEN [exc |-> "ProviderCallError"]
                                     ELSE NoError,
                           !.argsAfter = ArgsAfterChat(args),
                           !.requests = <<ChatRequest(g.obj, messages, max_tokens,
                                                      temperature)>>]
        /\ UNCHANGED <<env, threadVars>>

\* llm_provider.chat(messages, max_tokens, temperature)
Chat(messages, max_tokens, temperature, outcome) ==
    ThroughSingleton("chat", messages, max_tokens, temperature, outcome)

\* generate_description(item_name, item_type, data_type): the prompt is left
\* unbound, and the call raises, when item_type is neither "table" nor "column"
GenerateDescription(item_type, prompt, max_tokens, temperature, outcome) ==
    IF item_type \in {"table", "column"}
    THEN ThroughSingleton("generate_description",
             <<[role |-> "system", content |-> SystemPromptText],
               [role |-> "user", content |-> prompt]>>,
             max_tokens, temperature, outcome)
    ELSE /\ last' = [NoCall EXCEPT !.op = "generate_description",
                       !.status = "raise",
                       !.error = [exc |-> "UnboundLocalError"]]
         /\ UNCHANGED <<env, _provider, heap, factoryCalls, threadVars>>

\* generate_sql(prompt, schema_chunk, config_chunk, db_structure_chunk, context)
GenerateSql(context, prompt, max_tokens, temperature, outcome) ==
    ThroughSingleton("generate_sql",
        <<[role |-> "system", content |-> SystemPromptText],
          [role |-> "system", content |-> SystemPromptText],
          [role |-> "system", content |-> context],
          [role |-> "system", content |-> SystemPromptText],
          [role |-> "user", content |-> prompt]>>,
        max_tokens, temperature, outcome)

\* refine_sql(combined_query, schema, config, db_structure, context)
RefineSql(context, prompt, max_tokens, temperature, outcome) ==
    ThroughSingleton("refine_sql",
        <<[role |-> "system", content |-> SystemPromptText],
          [role |-> "system", content |-> context],
          [role |-> "system", content |-> SystemPromptText],
          [role |-> "user", content |-> prompt]>>,
        max_tokens, temperature, outcome)

---------------------------------------------------------------------------
(* get_provider() step by step, for threads that race on it *)

\* if _provider is None:
Check(t) ==
    /\ pc[t] = "idle"
    /\ pc' = [pc EXCEPT ![t] = IF _provider = NoProvider THEN "call" ELSE "return"]
    /\ UNCHANGED <<env, _provider, heap, factoryCalls, last, built, returned>>

\* get_llm_provider() evaluated; an exception leaves get_provider()
Construct(t) ==
    /\ pc[t] = "call"
    /\ LET r == get_llm_provider(env)
       IN  /\ factoryCalls' = factoryCalls + 1
           /\ IF r.status = "return"
              THEN /\ heap' = heap + 1
                   /\ built' = [built EXCEPT ![t] = New(r.value, heap + 1)]
                   /\ pc' = [pc EXCEPT ![t] = "assign"]
                   /\ UNCHANGED returned
              ELSE /\ returned' = [returned EXCEPT ![t] =
                          [NoCall EXCEPT !.op = "get_provider", !.status = "raise",
                                         !.error = r.error, !.factory = 1,
                                         !.reads = FactoryEnvReads(env)]]
                   /\ pc' = [pc EXCEPT ![t] = "done"]
                   /\ UNCHANGED <<heap, built>>
    /\ UNCHANGED <<env, _provider, last>>

\* _provider = <the factory's result>
Assign(t) ==
    /\ pc[t] = "assign"
    /\ _provider' = built[t]
    /\ pc' = [pc EXCEPT ![t] = "return"]
    /\ UNCHANGED <<env, heap, factoryCalls, last, built, returned>>

\* return _provider
Return(t) ==
    /\ pc[t] = "return"
    /\ returned' = [returned EXCEPT ![t] =
           [NoCall EXCEPT !.op = "get_provider", !.status = "return",
                          !.obj = _provider,
                          !.factory = IF built[t] = NoProvider THEN 0 ELSE 1,
                          !.reads = IF built[t] = NoProvider THEN 0
                                    ELSE FactoryEnvReads(env)]]
    /\ pc' = [pc EXCEPT ![t] = "done"]
    /\ UNCHANGED <<env, _provider, heap, factoryCalls, last, built>>

---------------------------------------------------------------------------
(* Specifications *)

\* The module just imported: nothing cached, nothing called
InitModule ==
    /\ _provider = NoProvider
    /\ heap = 0
    /\ factoryCalls = 0
    /\ last = NoCall
    /\ InitThreads

\* The factory called directly, on every environment
InitFactory == env \in FactoryEnvs /\ InitModule

NextFactory == CallFactory

SpecFactory == InitFactory /\ [][NextFactory]_vars

\* One thread using the singleton and its consumers while the environment changes
Init == env = MkEnv(Unset, Unset, Unset, Unset, Unset) /\ InitModule

Next ==
    \/ \E k \in SingletonKeys : \E v \in SingletonTexts(k) : SetEnv(k, v)
    \/ \E k \in SingletonKeys : DelEnv(k)
    \/ GetProvider
    \/ \E m \in SingletonTranscripts, o \in BackendOutcomes :
          Chat(m, DefaultMaxTokens, DefaultTemperature, o)
    \/ \E i \in {"table", "column", "view"}, q \in PromptTexts, o \in BackendOutcomes :
          GenerateDescription(i, q, LLM_CONFIG.max_tokens, LLM_CONFIG.temperature, o)
    \/ \E q \in PromptTexts, o \in BackendOutcomes :
          GenerateSql(ContextText, q, LLM_CONFIG.max_tokens, LLM_CONFIG.temperature, o)
    \/ \E q \in PromptTexts, o \in BackendOutcomes :
          RefineSql(ContextText, q, LLM_CONFIG.max_tokens, LLM_CONFIG.temperature, o)

Spec == Init /\ [][Next]_vars

\* chat() on a provider of every class, the singleton already built
InitChat ==
    /\ env \in ChatEnvs
    /\ LET g == get_provider(NoProvider, env, 0)
       IN  /\ _provider = g.cache
           /\ heap = g.allocated
           /\ factoryCalls = g.factory
           /\ last = [NoCall EXCEPT !.op = "get_provider", !.status = g.status,
                                    !.obj = g.obj, !.error = g.error,
                                    !.factory = g.factory, !.reads = g.reads]
    /\ InitThreads

ChatOn(class) ==
    /\ _provider.class = class
    /\ last.op = "get_provider"
    /\ \E m \in Transcripts(MaxMsgs), x \in MaxTokensValues, c \in TemperatureValues,
          o \in BackendOutcomes : Chat(m, x, c, o)

NextChat ==
    \/ ChatOn("OpenAIProvider")
    \/ ChatOn("AnthropicProvider")
    \/ ChatOn("OllamaProvider")
    \/ ChatOn("VLLMProvider")
    \/ ChatOn("OpenAICompatibleProvider")

SpecChat == InitChat /\ [][NextChat]_vars

\* Threads racing on get_provider()
InitConc == env \in ConcEnvs /\ InitModule

NextConc ==
    \E t \in 1..NumThreads : Check(t) \/ Construct(t) \/ Assign(t) \/ Return(t)

SpecConc == InitConc /\ [][NextConc]_vars

---------------------------------------------------------------------------
(* What the claims speak of *)

\* The LLM_PROVIDER value the factory selects on, before case folding
SelectedText == getenv(env, "LLM_PROVIDER", S_openai)

\* Every kind text the factory accepts: those it builds an adapter for when
\* every other variable is set
AcceptedKinds ==
    {k \in {Lower(p) : p \in ProviderTexts} :
        get_llm_provider(MkEnv(k, <<"m">>, <<"u">>, <<"k">>, <<"k">>)).status
            = "return"}

\* The kinds the documentation recognizes, with the variables each requires,
\* the adapter class each selects and its documented default model
RecognizedKinds ==
    {S_openai, S_anthropic, S_claude, S_ollama, S_vllm, S_openai_compatible}

RequiredVars(kind) ==
    CASE kind = S_openai -> {"OPENAI_API_KEY"}
      [] kind \in {S_anthropic, S_claude} -> {"ANTHROPIC_API_KEY"}
      [] kind = S_ollama -> {}
      [] kind = S_vllm -> {"LLM_MODEL"}
      [] kind = S_openai_compatible -> {"LLM_MODEL", "LLM_BASE_URL"}

ClassOfKind(kind) ==
    CASE kind = S_openai -> "OpenAIProvider"
      [] kind \in {S_anthropic, S_claude} -> "AnthropicProvider"
      [] kind = S_ollama -> "OllamaProvider"
      [] kind = S_vllm -> "VLLMProvider"
      [] kind = S_openai_compatible -> "OpenAICompatibleProvider"

DefaultModels(kind) ==
    CASE kind = S_openai -> {S_gpt_4o}
      [] kind \in {S_anthropic, S_claude} -> {S_claude_sonnet}
      [] kind = S_ollama -> {S_llama31}
      [] OTHER -> {}

\* A variable is missing when it is not set or set to the empty text
Missing(e, v) == v \notin DOMAIN e \/ e[v] = <<>>

\* The case-insensitive comparison of two texts, letter by letter
SameIgnoringCase(a, b) ==
    /\ Len(a) = Len(b)
    /\ \A i \in 1..Len(a) :
          \/ a[i] = b[i]
          \/ \E j \in 1..26 : {a[i], b[i]} = {UpperLetters[j], LowerLetters[j]}

\* The recognized kind the selected text matches case-insensitively, if any
MatchedKinds == {k \in RecognizedKinds : SameIgnoringCase(SelectedText, k)}

FactoryCalled == last.op = "get_llm_provider"

\* C3: for every LLM_PROVIDER value that is, case-insensitively, none of the
\* kinds the factory accepts, get_llm_provider() raises the unknown-provider
\* error, builds no adapter and sends no request, and the error names the
\* value and lists every kind text the factory would accept.
C3_UnknownKindListsAccepted ==
    (FactoryCalled /\ \A k \in AcceptedKinds : ~SameIgnoringCase(SelectedText, k))
    => /\ last.status = "raise"
       /\ last.error.exc = "ValueError"
       /\ last.error.kind = "unknown"
       /\ last.obj = NoProvider
       /\ heap = 0
       /\ last.requests = <<>>
       /\ SameIgnoringCase(last.error.value, SelectedText)
       /\ \A k \in AcceptedKinds :
             \E i \in DOMAIN last.error.supported : last.error.supported[i] = k

\* C4: for every recognized kind with a required variable missing,
\* get_llm_provider() raises an error naming a variable that the selected kind
\* requires and that is missing, before any adapter is built or request sent,
\* and returns no adapter; openai-compatible with a model and no base URL
\* names LLM_BASE_URL.
C4_MissingRequiredNamed ==
    \A kind \in MatchedKinds :
        (FactoryCalled /\ \E v \in RequiredVars(kind) : Missing(env, v))
        => /\ last.status = "raise"
           /\ last.error.exc = "ValueError"
           /\ last.error.kind = "required"
           /\ last.error.variable \in RequiredVars(kind)
           /\ Missing(env, last.error.variable)
           /\ last.obj = NoProvider
           /\ heap = 0
           /\ last.requests = <<>>
           /\ (kind = S_openai_compatible /\ ~Missing(env, "LLM_MODEL"))
                 => last.error.variable = "LLM_BASE_URL"

C4_Witness ==
    /\ FactoryCalled
    /\ SelectedText = <<"O","p","e","n","A","I","-","C","o","m","p","a","t","i","b","l","e">>
    /\ ~Missing(env, "LLM_MODEL")
    /\ "LLM_BASE_URL" \notin DOMAIN env
    /\ last.status = "raise"
    /\ last.error.variable = "LLM_BASE_URL"

\* C5: for every recognized kind, matched case-insensitively, whose required
\* variables are all present, get_llm_provider() returns the adapter of that
\* kind; its name contains LLM_MODEL when that is set, and the kind's default
\* model when LLM_MODEL is unset and a default exists.  For ollama the factory
\* never fails, and with LLM_MODEL and LLM_BASE_URL unset the model is
\* llama3.1 and the endpoint http://localhost:11434.
C5_CompleteConfigBuildsKind ==
    \A kind \in MatchedKinds :
        (FactoryCalled /\ \A v \in RequiredVars(kind) : ~Missing(env, v))
        => /\ last.status = "return"
           /\ last.obj.class = ClassOfKind(kind)
           /\ "LLM_MODEL" \in DOMAIN env => Contains(name(last.obj), env["LLM_MODEL"])
           /\ "LLM_MODEL" \notin DOMAIN env
                 => \A d \in DefaultModels(kind) : Contains(name(last.obj), d)
           /\ (kind = S_ollama /\ {"LLM_MODEL", "LLM_BASE_URL"} \cap DOMAIN env = {})
                 => /\ last.obj.model = S_llama31
                    /\ last.obj.client.base_url = S_ollama_url

C5_Witness ==
    /\ FactoryCalled
    /\ SelectedText = <<"O","L","L","A","M","A">>
    /\ {"LLM_MODEL", "LLM_BASE_URL"} \cap DOMAIN env = {}
    /\ last.status = "return"
    /\ last.obj.class = "OllamaProvider"

---------------------------------------------------------------------------
(* The singleton, one thread *)

AdapterClasses ==
    {"OpenAIProvider", "AnthropicProvider", "OllamaProvider", "VLLMProvider",
     "OpenAICompatibleProvider"}

\* The model a request names
RequestModel(r) ==
    IF r.api = "requests.post" THEN r.kwargs.json.model ELSE r.kwargs.model

\* A step in which get_provider() is called to completion, directly or by
\* chat(), generate_description(), generate_sql() or refine_sql(): the
\* environment is untouched and the call got as far as get_provider()
GetProviderCalled ==
    /\ env' = env
    /\ last'.op \in {"get_provider", "chat", "generate_description", "generate_sql",
                     "refine_sql"}
    /\ last'.error.exc # "UnboundLocalError"

\* C2: once get_provider() has returned a provider, every later call, direct
\* or through a consumer, gets that same object without invoking the factory
\* or reading the environment, whatever was changed in the environment in
\* between, and the cached object never changes.
C2_CachedInstanceForever ==
    [][_provider # NoProvider
         => /\ _provider' = _provider
            /\ GetProviderCalled
                 => /\ last'.factory = 0
                    /\ last'.reads = 0
                    /\ last'.obj = _provider
                    /\ last'.op = "get_provider" => last'.status = "return"
                    /\ \A i \in DOMAIN last'.requests :
                          /\ RequestModel(last'.requests[i]) = _provider.model
                          /\ last'.requests[i].client = _provider.client]_vars

\* A later consumer call served from the cache although the environment now
\* selects another kind
C2_Witness ==
    /\ _provider # NoProvider
    /\ last.op = "generate_sql"
    /\ last.factory = 0
    /\ last.obj = _provider
    /\ get_llm_provider(env).status = "return"
    /\ get_llm_provider(env).value.class # _provider.class

\* C10: when the factory raises inside get_provider() the error reaches the
\* caller and the cache stays unset; every call made while the cache is unset
\* invokes the factory again on the environment as it then is, so once the
\* configuration is corrected the call returns and caches the provider; the
\* cache never holds anything but a provider the factory returned.
C10_FailureNotCached ==
    [][/\ (GetProviderCalled /\ _provider = NoProvider)
            => LET r == get_llm_provider(env)
               IN  /\ last'.factory = 1
                   /\ last'.reads = FactoryEnvReads(env)
                   /\ factoryCalls' = factoryCalls + 1
                   /\ r.status = "raise"
                        => /\ last'.status = "raise"
                           /\ last'.error = r.error
                           /\ last'.obj = NoProvider
                           /\ _provider' = NoProvider
                           /\ heap' = heap
                   /\ r.status = "return"
                        => /\ _provider' = New(r.value, heap + 1)
                           /\ last'.obj = _provider'
                           /\ last'.op = "get_provider" => last'.status = "return"
       /\ _provider' # NoProvider => _provider'.class \in AdapterClasses]_vars

\* A call that built and cached the provider after earlier calls had failed
C10_Witness ==
    /\ factoryCalls >= 2
    /\ heap = 1
    /\ last.op = "get_provider"
    /\ last.factory = 1
    /\ last.status = "return"
    /\ _provider = last.obj
    /\ _provider # NoProvider

---------------------------------------------------------------------------
(* The singleton, racing threads *)

\* C1: when threads race on the first get_provider(), interleaved at the
\* check, the factory call and the assignment, the factory is invoked at most
\* once (under a configuration the factory builds a provider from), at most
\* one provider object is built, and every caller that gets a provider gets
\* the same object.
C1_BuiltOnceUnderRace ==
    /\ get_llm_provider(env).status = "return" => factoryCalls <= 1
    /\ heap <= 1
    /\ \A s, t \in 1..NumThreads :
          (returned[s].status = "return" /\ returned[t].status = "return")
          => returned[s].obj = returned[t].obj

---------------------------------------------------------------------------
(* chat() of the adapters *)

\* The call record of a chat() that reached the backend of an adapter of `class`
Sent(class) ==
    /\ last.op = "chat"
    /\ last.obj.class = class
    /\ Len(last.requests) = 1

\* The contents of the system messages, and the other messages, in order
RECURSIVE SystemContents(_)
SystemContents(messages) ==
    IF messages = <<>> THEN <<>>
    ELSE (IF Head(messages).role = "system" THEN <<Head(messages).content>> ELSE <<>>)
         \o SystemContents(Tail(messages))

Turns(messages) == SelectSeq(messages, LAMBDA m : m.role # "system")

\* The texts of `parts` joined by newlines
RECURSIVE NewlineJoin(_)
NewlineJoin(parts) ==
    IF parts = <<>> THEN <<>>
    ELSE IF Len(parts) = 1 THEN Head(parts)
    ELSE Head(parts) \o <<"\n">> \o NewlineJoin(Tail(parts))

\* Text s holds the texts of `parts` one after the other, in that order
RECURSIVE HoldsInOrder(_, _)
HoldsInOrder(s, parts) ==
    \/ parts = <<>>
    \/ \E i \in 0..(Len(s) - Len(Head(parts))) :
          /\ SubSeq(s, i + 1, i + Len(Head(parts))) = Head(parts)
          /\ HoldsInOrder(SubSeq(s, i + Len(Head(parts)) + 1, Len(s)), Tail(parts))

\* C6: AnthropicProvider.chat on N system messages interleaved with M >= 1
\* user/assistant messages sends a system field holding all N system contents
\* in their order and, as messages, exactly the M other messages, unchanged
\* and in their order; the caller's list is left as it was.
C6_SystemFoldedTurnsKept ==
    (Sent("AnthropicProvider") /\ Turns(last.args.messages) # <<>>)
    => LET kw == last.requests[1].kwargs
       IN  /\ SystemContents(last.args.messages) # <<>>
                => /\ kw.system # PyNone
                   /\ HoldsInOrder(kw.system, SystemContents(last.args.messages))
           /\ kw.messages = Turns(last.args.messages)
           /\ last.argsAfter = last.args

\* C7: AnthropicProvider.chat on system messages only sends one placeholder
\* user turn as messages, and a system field equal to the newline-join of the
\* system contents in their order.
C7_OnlySystemPlaceholder ==
    (Sent("AnthropicProvider") /\ last.args.messages # <<>>
        /\ Turns(last.args.messages) = <<>>)
    => LET kw == last.requests[1].kwargs
       IN  /\ Len(kw.messages) = 1
           /\ kw.messages[1].role = "user"
           /\ kw.system = NewlineJoin(SystemContents(last.args.messages))

\* C8: the messages AnthropicProvider.chat sends are never empty, hold no
\* system message, and alternate between user and assistant.
C8_TurnsAlternate ==
    Sent("AnthropicProvider")
    => LET turns == last.requests[1].kwargs.messages
       IN  /\ turns # <<>>
           /\ \A i \in DOMAIN turns : turns[i].role \in {"user", "assistant"}
           /\ \A i \in 1..(Len(turns) - 1) : turns[i].role # turns[i + 1].role

\* The generation parameters a request carries, absent ones left out
RequestParams(r) ==
    IF r.api = "requests.post"
    THEN [max_tokens |-> r.kwargs.json.options.num_predict,
          temperature |-> r.kwargs.json.options.temperature]
    ELSE [f \in DOMAIN r.kwargs \cap {"max_tokens", "temperature"} |-> r.kwargs[f]]

\* C9: the one request a chat() call of any adapter sends carries the
\* adapter's model and the caller's max_tokens and temperature, unchanged.
C9_RequestCarriesParameters ==
    \A class \in AdapterClasses :
        Sent(class)
        => /\ RequestModel(last.requests[1]) = last.obj.model
           /\ RequestParams(last.requests[1])
                = [max_tokens |-> last.args.max_tokens,
                   temperature |-> last.args.temperature]

============================================================================
